---- MODULE Spec2Model ----
(***************************************************************************)
(* State-machine model of the context synchronisation engine               *)
(* (cli/nao_core/commands/sync/providers/confluence/provider.py), of the   *)
(* serving API (apps/backend/fastapi/main.py), of the provider registry    *)
(* (cli/nao_core/commands/sync/providers/__init__.py) and of the LLM       *)
(* connection test (cli/nao_core/commands/debug.py).                       *)
(*                                                                         *)
(* Strings that the code takes apart (page titles, file names) are         *)
(* sequences of one-character strings, so that the title sanitisation and  *)
(* pathlib's suffix rule are computed and not assumed.                     *)
(***************************************************************************)
EXTENDS Integers, Sequences, FiniteSets, TLC

VARIABLES
    \* ---- the filesystem below output_path --------------------------------
    dirExists,          \* output_path.exists()
    fs,                 \* path (sequence of names) -> [kind, by, whole]
    \* ---- the environment of one sync run --------------------------------
    items,              \* the items argument of sync: <<>> or <<config>>
    import_ok,          \* whether "from atlassian import Confluence" succeeds
    upstream,           \* set of page ids that exist upstream during the run
    \* ---- ConfluenceSyncProvider.sync: locals and position ----------------
    pc,
    spaceIdx,
    all_pages_to_sync,
    pageIdx,
    total_pages_synced,
    synced_pages,
    synced_files,
    removed_count,
    result,
    \* ---- what the run did (observation only) ------------------------------
    run,                \* number of runs started
    listFailed,         \* spaces whose listing raised in this run
    pageOutcome,        \* sequence: outcome of each processed page, in order
    cleanupCalls,       \* calls of cleanup_stale_pages in this run
    deleted,            \* top-level names unlinked in this run
    wroteAfterDelete,   \* a file was written after a deletion of this run
    fsAtStart,          \* fs when the run started
    prev,               \* the previous run, when it reached every page it should
    \* ---- one call of _convert_value ---------------------------------------
    cv_pc,
    cv_in,              \* the argument v
    cv_out,             \* the value returned
    \* ---- one call of the /execute_sql handler ------------------------------
    sq_pc,
    sq_req,             \* the request and what the handler finds: the loaded
                        \* configuration and the outcome of the statement
    sq_resp,            \* the response
    sq_executed,        \* indexes of the configurations that ran the statement
    cwd,                \* the working directory of the process
    \* ---- the server process ------------------------------------------------
    refresh_schedule,   \* NAO_REFRESH_SCHEDULE: "unset", "valid" or "invalid"
    scheduler,          \* the global scheduler
    app,                \* where the lifespan of the application stands
    lifespan_log,       \* what lifespan has printed
    tasks,              \* the requests and scheduler ticks of the process
    remoteAhead,        \* the context source has a revision not pulled yet
    \* ---- one call of a function of the command line tool -------------------
    fn_name,            \* the function called, "idle" when none is
    fn_pc,
    fn_in,              \* its arguments and what it meets
    fn_out              \* what it returns or raises

syncVars == <<dirExists, fs, items, import_ok, upstream, pc, spaceIdx,
              all_pages_to_sync, pageIdx, total_pages_synced, synced_pages,
              synced_files, removed_count, result, run, listFailed,
              pageOutcome, cleanupCalls, deleted, wroteAfterDelete,
              fsAtStart, prev>>

convVars == <<cv_pc, cv_in, cv_out>>

sqlVars == <<sq_pc, sq_req, sq_resp, sq_executed, cwd>>

srvVars ==
    <<refresh_schedule, scheduler, app, lifespan_log, tasks, remoteAhead>>

fnVars == <<fn_name, fn_pc, fn_in, fn_out>>

vars == <<syncVars, convVars, sqlVars, srvVars, fnVars>>

notSync == <<convVars, sqlVars, srvVars, fnVars>>
notConv == <<syncVars, sqlVars, srvVars, fnVars>>
notSql  == <<syncVars, convVars, srvVars, fnVars>>
notSrv  == <<syncVars, convVars, sqlVars, fnVars>>
notFn   == <<syncVars, convVars, sqlVars, srvVars>>

-----------------------------------------------------------------------------
(* Bounds of the model *)

\* runs of sync on one output directory
MaxRuns == 2

\* requests and scheduler ticks one server process gets
MaxTasks == 3

-----------------------------------------------------------------------------
(* Characters and strings *)

LowerLetters == {"a", "b", "c", "d", "m", "n", "o", "l", "t", "x"}
UpperLetters == {"A", "B", "C"}
Digits       == {"1"}

\* \w of Python's re for the characters of the model
IsWordChar(c) == c \in LowerLetters \cup UpperLetters \cup Digits \cup {"_"}

\* \s of Python's re, which is also what str.strip() removes
IsSpaceChar(c) == c \in {" ", "\t"}

LowerChar(c) ==
    CASE c = "A" -> "a"
      [] c = "B" -> "b"
      [] c = "C" -> "c"
      [] OTHER   -> c

\* re.sub(r'[^\w\s-]', '', title)
ReSubNonWord(title) ==
    SelectSeq(title, LAMBDA c : IsWordChar(c) \/ IsSpaceChar(c) \/ c = "-")

RECURSIVE LStrip(_)
LStrip(s) ==
    IF s # <<>> /\ IsSpaceChar(Head(s)) THEN LStrip(Tail(s)) ELSE s

RECURSIVE RStrip(_)
RStrip(s) ==
    IF s # <<>> /\ IsSpaceChar(s[Len(s)])
    THEN RStrip(SubSeq(s, 1, Len(s) - 1))
    ELSE s

\* str.strip()
Strip(s) == RStrip(LStrip(s))

\* str.replace(' ', '-')
ReplaceSpaces(s) == [i \in 1..Len(s) |-> IF s[i] = " " THEN "-" ELSE s[i]]

\* str.lower()
Lower(s) == [i \in 1..Len(s) |-> LowerChar(s[i])]

SafeTitle(title) == Lower(ReplaceSpaces(Strip(ReSubNonWord(title))))

MdSuffix == <<".", "m", "d">>

\* filename = f"{safe_title}.md"
Filename(title) == SafeTitle(title) \o MdSuffix

RECURSIVE RFindDot(_, _)
RFindDot(name, i) ==
    IF i = 0 THEN 0
    ELSE IF name[i] = "." THEN i
    ELSE RFindDot(name, i - 1)

\* pathlib's PurePath.suffix: the part from the last dot of the name on, when
\* that dot is neither the first nor the last character of the name
Suffix(name) ==
    LET i == RFindDot(name, Len(name))
    IN  IF 1 < i /\ i < Len(name) THEN SubSeq(name, i, Len(name)) ELSE <<>>

-----------------------------------------------------------------------------
(* The upstream Confluence pages of the model *)

Spaces  == {1, 2}
PageIds == {1, 2, 3, 4}

\* page.get('title', ...)
PageTitle(p) ==
    CASE p = 1 -> <<"A", " ", "b">>
      [] p = 2 -> <<"C">>
      [] p = 3 -> <<"a", "-", "b", "!">>
      [] p = 4 -> <<"!">>

\* the space a page lives in
PageSpace(p) == IF p \in {1, 2} THEN 1 ELSE 2

PageFilename(p) == Filename(PageTitle(p))

-----------------------------------------------------------------------------
(* The directory output_path *)

EmptyFs == [path \in {} |-> 0]

FileEntry(p, whole) == [kind |-> "file", by |-> p, whole |-> whole]
DirEntry            == [kind |-> "dir", by |-> 0, whole |-> TRUE]

\* entries that something other than the sync may have put under output_path
OldMd    == <<"o", "l", "d", ".", "m", "d">>
NotesTxt == <<"n", ".", "t", "x", "t">>
DirMd    == <<"d", ".", "m", "d">>
NestedMd == <<"x", ".", "m", "d">>

ForeignUnits ==
    { (<<OldMd>> :> FileEntry(0, TRUE)),
      (<<NotesTxt>> :> FileEntry(0, TRUE)),
      (<<DirMd>> :> DirEntry) @@ (<<DirMd, NestedMd>> :> FileEntry(0, TRUE)) }

RECURSIVE MergeFs(_)
MergeFs(units) ==
    IF units = {} THEN EmptyFs
    ELSE LET u == CHOOSE u \in units : TRUE
         IN  u @@ MergeFs(units \ {u})

\* whether something exists at path
Exists(f, path) == \E q \in DOMAIN f : q = path

\* output_path.iterdir(): the entries directly under output_path
IterDir(f) == {path \in DOMAIN f : Len(path) = 1}

\* file_path.unlink()
Unlink(f, path) == [q \in DOMAIN f \ {path} |-> f[q]]

\* IsStale without the test of the suffix
IsStaleAnySuffix(f, path, synced) ==
    /\ f[path].kind = "file"
    /\ path[Len(path)] \notin synced

\* the test of lines 32-33
IsStale(f, path, synced) ==
    /\ f[path].kind = "file"
    /\ Suffix(path[Len(path)]) = MdSuffix
    /\ path[Len(path)] \notin synced

RECURSIVE CleanupLoop(_, _, _, _)
CleanupLoop(todo, synced, f, removed) ==
    IF todo = {} THEN [fs |-> f, removed_count |-> removed]
    ELSE LET file_path == CHOOSE q \in todo : TRUE
         IN  IF IsStale(f, file_path, synced)
             THEN CleanupLoop(todo \ {file_path}, synced,
                              Unlink(f, file_path), removed + 1)
             ELSE CleanupLoop(todo \ {file_path}, synced, f, removed)

cleanup_stale_pages(synced, exists, f) ==
    IF ~exists
    THEN [fs |-> f, removed_count |-> 0]
    ELSE CleanupLoop(IterDir(f), synced, f, 0)

\* the names of the regular .md files directly under output_path
MdFiles(f) ==
    {path[1] : path \in {q \in IterDir(f) :
                            f[q].kind = "file" /\ Suffix(q[1]) = MdSuffix}}

-----------------------------------------------------------------------------
(* Listing a space *)

Limit == 50

Min(a, b) == IF a < b THEN a ELSE b

RECURSIVE SortedSeq(_)
SortedSeq(S) ==
    IF S = {} THEN <<>>
    ELSE LET m == CHOOSE x \in S : \A y \in S : x <= y
         IN  <<m>> \o SortedSeq(S \ {m})

\* the pages of a space as the server lists them
SpaceListing(up, space) == SortedSeq({p \in up : PageSpace(p) = space})

\* client.get_all_pages_from_space(space_key, start=start, limit=limit)
GetPagesFromSpace(listing, start, limit) ==
    SubSeq(listing, start + 1, Min(start + limit, Len(listing)))

RECURSIVE GetAllPagesLoop(_, _, _)
GetAllPagesLoop(listing, start, all_pages) ==
    LET pages == GetPagesFromSpace(listing, start, Limit)
    IN  IF pages = <<>> THEN all_pages
        ELSE IF Len(pages) < Limit THEN all_pages \o pages
        ELSE GetAllPagesLoop(listing, start + Limit, all_pages \o pages)

_get_all_pages(listing) == GetAllPagesLoop(listing, 0, <<>>)

-----------------------------------------------------------------------------
(* ConfluenceSyncProvider.sync *)

NoResult == [kind |-> "none"]

\* the SyncResult of lines 162-172
FinalResult(n, pages, removed) ==
    [kind |-> "SyncResult", provider_name |-> "Confluence", items_synced |-> n,
     details |-> [pages |-> pages, removed |-> removed],
     summary |-> [text |-> "pages synced as markdown", synced |-> n,
                  stale_removed |-> IF removed > 0 THEN <<removed>> ELSE <<>>]]

\* EarlyResult that is the result of the end of sync for no page
EarlyResultAsFinal(summary) == FinalResult(0, <<>>, 0)

\* the SyncResult of the three early returns
EarlyResult(summary) ==
    [kind |-> "SyncResult", provider_name |-> "Confluence", items_synced |-> 0,
     details |-> [none |-> TRUE], summary |-> [text |-> summary]]

\* the items argument: no configuration, or one configuration of two spaces
ItemsChoices == {<<>>, <<[spaces |-> <<1, 2>>]>>}

\* what one iteration of the page loop can do: succeed, raise before the file
\* is opened (fetch, conversion, open), or raise after open() created or
\* truncated the file
Outcomes == {"ok", "raises", "write_raises"}

NoPrev == [clean |-> FALSE]

\* every listing and every page of the run so far succeeded
RunClean ==
    /\ listFailed = {}
    /\ \A i \in 1..Len(pageOutcome) : pageOutcome[i].outcome = "ok"

\* entry of sync with its arguments and environment: the observation variables
\* are reset, the locals of lines 84-86 initialised
EnterSync(it, imp, up) ==
    /\ pc \in {"idle", "done"}
    /\ run < MaxRuns
    /\ items' = it
    /\ import_ok' = imp
    /\ upstream' = up
    /\ run' = run + 1
    /\ prev' = IF run > 0 /\ pc = "done" /\ RunClean
               THEN [clean |-> TRUE, items |-> items, import_ok |-> import_ok,
                     upstream |-> IF items # <<>> /\ import_ok
                                  THEN upstream ELSE {}]
               ELSE NoPrev
    /\ fsAtStart' = fs
    /\ listFailed' = {}
    /\ pageOutcome' = <<>>
    /\ cleanupCalls' = 0
    /\ deleted' = {}
    /\ wroteAfterDelete' = FALSE
    /\ total_pages_synced' = 0
    /\ synced_pages' = <<>>
    /\ synced_files' = {}
    /\ removed_count' = 0
    /\ all_pages_to_sync' = <<>>
    /\ spaceIdx' = 1
    /\ pageIdx' = 1
    /\ UNCHANGED notSync

\* lines 77-79: no configuration
SyncNoItems ==
        /\ EnterSync(<<>>, import_ok, upstream)
        /\ result' = EarlyResult("No Confluence configurations configured")
        /\ pc' = "done"
        /\ UNCHANGED <<dirExists, fs>>

\* lines 81-95: the directory is created, then the import fails
SyncImportError ==
    \E it \in ItemsChoices \ {<<>>} :
        /\ EnterSync(it, FALSE, upstream)
        /\ dirExists' = TRUE
        /\ result' = EarlyResult("Missing dependency: atlassian-python-api")
        /\ pc' = "done"
        /\ UNCHANGED fs

\* lines 81-98: the directory is created and the space loop begins
SyncBegin ==
    \E it \in ItemsChoices \ {<<>>}, up \in SUBSET PageIds :
        /\ EnterSync(it, TRUE, up)
        /\ dirExists' = TRUE
        /\ result' = NoResult
        /\ pc' = "spaces"
        /\ UNCHANGED fs

ConfiguredSpaces == items[1].spaces

\* lines 99-121: one iteration of the space loop; a raise inside the try
\* (URL parsing, client construction, listing) skips the whole space
CollectSpace ==
    /\ pc = "spaces"
    /\ spaceIdx <= Len(ConfiguredSpaces)
    /\ \E ok \in BOOLEAN :
          LET space == ConfiguredSpaces[spaceIdx]
          IN  IF ok
              THEN /\ all_pages_to_sync' = all_pages_to_sync \o
                          _get_all_pages(SpaceListing(upstream, space))
                   /\ UNCHANGED listFailed
              ELSE /\ listFailed' = listFailed \cup {space}
                   /\ UNCHANGED all_pages_to_sync
    /\ spaceIdx' = spaceIdx + 1
    /\ UNCHANGED <<dirExists, fs, items, import_ok, upstream, pc, pageIdx,
                   total_pages_synced, synced_pages, synced_files,
                   removed_count, result, run, pageOutcome, cleanupCalls,
                   deleted, wroteAfterDelete, fsAtStart, prev>>
    /\ UNCHANGED notSync

\* lines 123-127: nothing was collected
SyncNoPages ==
    /\ pc = "spaces"
    /\ spaceIdx > Len(ConfiguredSpaces)
    /\ Len(all_pages_to_sync) = 0
    /\ result' = EarlyResult("No pages found in Confluence spaces")
    /\ pc' = "done"
    /\ UNCHANGED <<dirExists, fs, items, import_ok, upstream, spaceIdx,
                   all_pages_to_sync, pageIdx, total_pages_synced,
                   synced_pages, synced_files, removed_count, run, listFailed,
                   pageOutcome, cleanupCalls, deleted, wroteAfterDelete,
                   fsAtStart, prev>>
    /\ UNCHANGED notSync

\* lines 123-138: the page loop begins
SyncStartPages ==
    /\ pc = "spaces"
    /\ spaceIdx > Len(ConfiguredSpaces)
    /\ Len(all_pages_to_sync) # 0
    /\ pc' = "pages"
    /\ UNCHANGED <<dirExists, fs, items, import_ok, upstream, spaceIdx,
                   all_pages_to_sync, pageIdx, total_pages_synced,
                   synced_pages, synced_files, removed_count, result, run,
                   listFailed, pageOutcome, cleanupCalls, deleted,
                   wroteAfterDelete, fsAtStart, prev>>
    /\ UNCHANGED notSync

\* open(filepath, 'w') cannot succeed on a directory
CanOpen(f, filename) ==
    IF Exists(f, <<filename>>) THEN f[<<filename>>].kind = "file" ELSE TRUE

\* the write of lines 146-148 by page p: "ok" writes the whole content,
\* "write_raises" leaves the file created or truncated
WriteFile(f, filename, p, whole) ==
    [q \in DOMAIN f \cup {<<filename>>} |->
        IF q = <<filename>> THEN FileEntry(p, whole) ELSE f[q]]

\* TrackFile that forgets the name
TrackFileDropped(files, filename) == files

\* line 152: synced_files.add(filename)
TrackFile(files, filename) == files \cup {filename}

\* AfterPage that leaves the loop when the iteration raised
AfterPageAbort(idx, outcome) ==
    IF outcome = "ok" THEN idx + 1 ELSE Len(all_pages_to_sync) + 1

\* lines 140 and 155-157: the except clause ends the iteration, and the loop
\* goes on with the next page
AfterPage(idx, outcome) == idx + 1

\* lines 140-157: one iteration of the page loop
SyncPage ==
    /\ pc = "pages"
    /\ pageIdx <= Len(all_pages_to_sync)
    /\ \E outcome \in Outcomes :
          LET page     == all_pages_to_sync[pageIdx]
              title    == PageTitle(page)
              filename == Filename(title)
          IN  /\ outcome \in {"ok", "write_raises"} => CanOpen(fs, filename)
              /\ pageOutcome' = Append(pageOutcome,
                                       [page |-> page, outcome |-> outcome])
              /\ IF outcome = "ok"
                 THEN /\ fs' = WriteFile(fs, filename, page, TRUE)
                      /\ total_pages_synced' = total_pages_synced + 1
                      /\ synced_pages' = Append(synced_pages, title)
                      /\ synced_files' = TrackFile(synced_files, filename)
                 ELSE /\ fs' = IF outcome = "write_raises"
                               THEN WriteFile(fs, filename, page, FALSE)
                               ELSE fs
                      /\ UNCHANGED <<total_pages_synced, synced_pages,
                                     synced_files>>
              /\ wroteAfterDelete' =
                    (wroteAfterDelete \/
                     (outcome \in {"ok", "write_raises"} /\ deleted # {}))
              /\ pageIdx' = AfterPage(pageIdx, outcome)
    /\ UNCHANGED <<dirExists, items, import_ok, upstream, pc, spaceIdx,
                   all_pages_to_sync, removed_count, result, run, listFailed,
                   cleanupCalls, deleted, fsAtStart, prev>>
    /\ UNCHANGED notSync

\* LoopDone that is true once the first page has been processed
LoopDoneEarly(idx, pages) == idx > 1

\* line 140: the for loop has gone through all_pages_to_sync
LoopDone(idx, pages) == idx > Len(pages)

\* lines 159-172: reconciliation and the result
SyncCleanup ==
    /\ pc = "pages"
    /\ LoopDone(pageIdx, all_pages_to_sync)
    /\ LET r == cleanup_stale_pages(synced_files, dirExists, fs)
       IN  /\ fs' = r.fs
           /\ removed_count' = r.removed_count
           /\ deleted' = deleted \cup
                  {path[1] : path \in IterDir(fs) \ IterDir(r.fs)}
           /\ result' = FinalResult(total_pages_synced, synced_pages,
                                    r.removed_count)
    /\ cleanupCalls' = cleanupCalls + 1
    /\ pc' = "done"
    /\ UNCHANGED <<dirExists, items, import_ok, upstream, spaceIdx,
                   all_pages_to_sync, pageIdx, total_pages_synced,
                   synced_pages, synced_files, run, listFailed, pageOutcome,
                   wroteAfterDelete, fsAtStart, prev>>
    /\ UNCHANGED notSync

-----------------------------------------------------------------------------
(* Driver values and _convert_value *)

\* a Python value: its type and its payload.  Numbers are written as strings;
\* the payload of str, bytes, datetime and date is a sequence of tokens, that
\* of an array or wrapper the sequence of what it holds.
V(t, v) == [t |-> t, v |-> v]

None == V("NoneType", "None")

\* the numbers of the model: the values of an IEEE double, and two finite
\* numbers whose magnitude exceeds the largest double
DoubleVals == {"nan", "inf", "-inf", "1.5", "-2.0", "0.0"}
HugeVals   == {"1e400", "-1e400"}

NpFloatTypes == {"np.float32", "np.float64", "np.longdouble"}

NativeFloats == {V("float", x) : x \in DoubleVals}
NpFloats ==
    {V(t, x) : t \in {"np.float32", "np.float64"}, x \in DoubleVals}
    \cup {V("np.longdouble", x) : x \in DoubleVals \cup HugeVals}
Decimals == {V("Decimal", x) : x \in DoubleVals \cup HugeVals \cup {"snan"}}

ScalarValues ==
    {None, V("pd.NA", "NA"), V("pd.NaT", "NaT"),
     V("np.bool_", "True"), V("np.bool_", "False"), V("np.int64", "7"),
     V("bool", "True"), V("int", "7"), V("str", <<"x">>),
     V("np.str_", <<"x">>),
     V("datetime", <<"2024-01-02", "03:04:05">>), V("date", <<"2024-01-02">>),
     V("np.datetime64", <<"2024-01-02", "03:04:05">>),
     V("bytes", <<"x", "FF">>), V("bytes", <<>>), V("np.bytes_", <<"x">>)}
    \cup NativeFloats \cup NpFloats \cup Decimals

\* objects with an item() method that are no numpy scalars
Wrappers ==
    {V("wrapper", <<x>>) :
        x \in {V("float", "nan"), V("float", "1.5"), V("int", "7"),
               V("bytes", <<"x">>), V("date", <<"2024-01-02">>)}}

Arrays ==
    {V("np.ndarray", a) :
        a \in {<<>>, <<V("np.float64", "1.5"), V("np.float64", "nan")>>,
               <<V("np.float64", "inf")>>, <<V("np.int64", "7")>>}}

Values == ScalarValues \cup Wrappers \cup Arrays

\* isinstance(v, float): np.float64 is a subclass of float
IsFloat(x) == x.t \in {"float", "np.float64"}

\* isinstance(v, np.floating)
IsNpFloating(x) == x.t \in NpFloatTypes

\* isinstance(v, bytes): np.bytes_ is a subclass of bytes
IsBytes(x) == x.t \in {"bytes", "np.bytes_"}

\* math.isnan, math.isinf
IsNan(x) == x.v = "nan"
IsInf(x) == x.v \in {"inf", "-inf"}

\* the double nearest to a number: a magnitude beyond the largest double
\* becomes an infinity
ToDouble(n) ==
    CASE n = "1e400"  -> "inf"
      [] n = "-1e400" -> "-inf"
      [] OTHER        -> n

\* float(v)
FloatOf(x) == V("float", ToDouble(x.v))

\* DecimalNonFinite without is_infinite()
DecimalNanOnly(x) == x.v \in {"nan", "snan"}

\* line 145: v.is_nan() or v.is_infinite()
DecimalNonFinite(x) == x.v \in {"nan", "snan"} \/ x.v \in {"inf", "-inf"}

\* isoformat() of a datetime or date
IsoFormat(x) ==
    IF Len(x.v) = 2 THEN V("str", <<x.v[1], "T", x.v[2]>>) ELSE V("str", x.v)

\* v.decode("utf-8", errors="replace")
Decode(x) ==
    V("str", [i \in 1..Len(x.v) |-> IF x.v[i] = "FF" THEN "U+FFFD" ELSE x.v[i]])

\* item() of a numpy scalar or of a wrapper: the native Python value
ItemOf(x) ==
    CASE x.t \in NpFloatTypes   -> FloatOf(x)
      [] x.t = "np.int64"       -> V("int", x.v)
      [] x.t = "np.bool_"       -> V("bool", x.v)
      [] x.t = "np.str_"        -> V("str", x.v)
      [] x.t = "np.bytes_"      -> V("bytes", x.v)
      [] x.t = "np.datetime64"  -> V("datetime", x.v)
      [] x.t = "wrapper"        -> x.v[1]
      [] OTHER                  -> x

\* callable(getattr(v, "item", None))
HasItem(x) ==
    x.t \in NpFloatTypes \cup
            {"np.int64", "np.bool_", "np.str_", "np.bytes_", "np.datetime64",
             "np.ndarray", "wrapper"}

\* ndarray.tolist(): the elements as native Python values
ToList(x) == V("list", [i \in 1..Len(x.v) |-> ItemOf(x.v[i])])

\* lines 119-158
_convert_value(v) ==
    IF v = None THEN None
    ELSE IF IsFloat(v) /\ (IsNan(v) \/ IsInf(v)) THEN None
    ELSE IF v.t \in {"pd.NA", "pd.NaT"} THEN None
    ELSE IF v.t = "np.bool_" THEN V("bool", v.v)
    ELSE IF v.t = "np.int64" THEN V("int", v.v)
    ELSE IF IsNpFloating(v)
         THEN LET val == FloatOf(v)
              IN  IF IsNan(val) \/ IsInf(val) THEN None ELSE val
    ELSE IF v.t = "np.ndarray" THEN ToList(v)
    ELSE IF v.t = "Decimal"
         THEN IF DecimalNonFinite(v) THEN None ELSE FloatOf(v)
    ELSE IF v.t \in {"datetime", "date"} THEN IsoFormat(v)
    ELSE IF IsBytes(v) THEN Decode(v)
    ELSE IF HasItem(v) THEN ItemOf(v)
    ELSE v

InitConvIdle ==
    /\ cv_pc = "idle"
    /\ cv_in = None
    /\ cv_out = None

InitConvert ==
    /\ cv_pc = "call"
    /\ cv_in \in Values
    /\ cv_out = None

ConvertCall ==
    /\ cv_pc = "call"
    /\ cv_out' = _convert_value(cv_in)
    /\ cv_pc' = "returned"
    /\ UNCHANGED <<cv_in, notConv>>

-----------------------------------------------------------------------------
(* The /execute_sql handler *)

\* rows a result of the model has at most
MaxRows == 2

\* request.database_id: None, or a string
NoDatabaseId == [given |-> FALSE, id |-> ""]
DatabaseId(s) == [given |-> TRUE, id |-> s]

\* the truth value of request.database_id (line 237): None and "" are false
Truthy(database_id) == database_id.given /\ database_id.id # ""

DbNames == {"", "a", "b"}

\* the lists config.databases of the model: names are unique in a project
DatabaseLists ==
    {<<>>}
    \cup {<<[name |-> n]>> : n \in DbNames}
    \cup {l \in {<<[name |-> n], [name |-> m]>> : n \in DbNames, m \in DbNames} :
             l[1].name # l[2].name}
    \cup {<<[name |-> "a"], [name |-> "b"], [name |-> ""]>>}

DatabaseIds == {NoDatabaseId} \cup {DatabaseId(s) : s \in DbNames \cup {"c"}}

\* [db.name for db in config.databases]
AvailableDatabases(databases) ==
    [i \in 1..Len(databases) |-> databases[i].name]

HttpError(status, message, listed, available) ==
    [status |-> status,
     detail |-> [message |-> message, listed |-> listed,
                 available_databases |-> available]]

\* next((db for db in config.databases if db.name == request.database_id),
\* None): the index of the first match, 0 for None
FirstNamed(databases, id) ==
    LET hits == {i \in 1..Len(databases) : databases[i].name = id}
    IN  IF hits = {} THEN 0
        ELSE CHOOSE i \in hits : \A j \in hits : i <= j

\* lines 228-261: the configuration to use, or the HTTPException raised
ResolveDatabase(databases, database_id) ==
    IF Len(databases) = 0
    THEN [ok |-> FALSE,
          error |-> HttpError(400, "No databases configured in nao_config.yaml",
                              FALSE, <<>>)]
    ELSE IF Len(databases) = 1
    THEN [ok |-> TRUE, index |-> 1]
    ELSE IF Truthy(database_id)
    THEN LET i == FirstNamed(databases, database_id.id)
         IN  IF i = 0
             THEN [ok |-> FALSE,
                   error |-> HttpError(400,
                               <<"Database", database_id.id, "not found">>,
                               TRUE, AvailableDatabases(databases))]
             ELSE [ok |-> TRUE, index |-> i]
    ELSE [ok |-> FALSE,
          error |-> HttpError(400,
                      "Multiple databases configured. Please specify database_id.",
                      TRUE, AvailableDatabases(databases))]

\* a column label of a DataFrame: a string, or an integer written as a string
Label(t, s) == [t |-> t, s |-> s]

\* str(c)
Str(label) == label.s

\* the key of a JSON object that a dict key is serialised to
JsonKey(label) == label.s

ColumnLists ==
    {<<>>, <<Label("str", "x")>>, <<Label("str", "x"), Label("str", "y")>>,
     <<Label("str", "x"), Label("str", "x")>>,
     <<Label("int", "1"), Label("str", "1")>>}

CellValues == {V("np.float64", "nan"), V("Decimal", "1.5")}

RowsOf(width) ==
    UNION {[1..n -> [1..width -> CellValues]] : n \in 0..MaxRows}

\* the DataFrames the driver may return
DataFrames ==
    UNION {{[columns |-> c, rows |-> r] : r \in RowsOf(Len(c))} :
              c \in ColumnLists}

\* df.to_dict(orient="records"): one dict per row; of two columns with the
\* same label the later one gives the value
ToDictRecords(df) ==
    [i \in 1..Len(df.rows) |->
        [k \in {df.columns[j] : j \in 1..Len(df.columns)} |->
            LET js == {j \in 1..Len(df.columns) : df.columns[j] = k}
                last == CHOOSE j \in js : \A h \in js : h <= j
            IN  df.rows[i][last]]]

\* lines 265-268
ConvertRecords(records) ==
    [i \in 1..Len(records) |->
        [k \in DOMAIN records[i] |-> _convert_value(records[i][k])]]

\* ResponseOf that counts the columns in place of the rows
ResponseOfCountingColumns(df) ==
    LET data == ConvertRecords(ToDictRecords(df))
    IN  [status |-> 200,
         body |-> [data |-> data,
                   row_count |-> Len(df.columns),
                   columns |-> [j \in 1..Len(df.columns) |-> Str(df.columns[j])]]]

\* lines 265-274
ResponseOf(df) ==
    LET data == ConvertRecords(ToDictRecords(df))
    IN  [status |-> 200,
         body |-> [data |-> data,
                   row_count |-> Len(data),
                   columns |-> [j \in 1..Len(df.columns) |-> Str(df.columns[j])]]]

\* what the handler meets: whether os.chdir and NaoConfig.try_load succeed
LoadOutcomes == {"ok", "chdir_raises", "config_error"}

Raises == [raises |-> TRUE]

\* what db_config.execute_sql(sql) does: it raises, or returns a DataFrame
ExecOutcomes == {Raises} \cup DataFrames

SqlRequests ==
    [nao_project_folder : {"project"},
     database_id : DatabaseIds,
     load : LoadOutcomes,
     databases : DatabaseLists,
     exec : ExecOutcomes]

\* lines 220-280: the response, the configurations that ran the statement
\* and the working directory afterwards
execute_sql(request, dir) ==
    IF request.load = "chdir_raises"
    THEN [resp |-> HttpError(500, "chdir", FALSE, <<>>), executed |-> <<>>,
          cwd |-> dir]
    ELSE IF request.load = "config_error"
    THEN [resp |-> HttpError(400, "NaoConfigError", FALSE, <<>>),
          executed |-> <<>>, cwd |-> request.nao_project_folder]
    ELSE LET r == ResolveDatabase(request.databases, request.database_id)
         IN  IF ~r.ok
             THEN [resp |-> r.error, executed |-> <<>>,
                   cwd |-> request.nao_project_folder]
             ELSE IF request.exec = Raises
             THEN [resp |-> HttpError(500, "execute_sql", FALSE, <<>>),
                   executed |-> <<r.index>>,
                   cwd |-> request.nao_project_folder]
             ELSE [resp |-> ResponseOf(request.exec),
                   executed |-> <<r.index>>,
                   cwd |-> request.nao_project_folder]

NoRequest == [none |-> TRUE]
NoResponse == [status |-> 0]

InitSqlIdle ==
    /\ sq_pc = "idle"
    /\ sq_req = NoRequest
    /\ sq_resp = NoResponse
    /\ sq_executed = <<>>
    /\ cwd = "start"

InitSql ==
    /\ sq_pc = "call"
    /\ sq_req \in SqlRequests
    /\ sq_resp = NoResponse
    /\ sq_executed = <<>>
    /\ cwd = "start"

ExecuteSqlCall ==
    /\ sq_pc = "call"
    /\ LET r == execute_sql(sq_req, cwd)
       IN  /\ sq_resp' = r.resp
           /\ sq_executed' = r.executed
           /\ cwd' = r.cwd
    /\ sq_pc' = "returned"
    /\ UNCHANGED <<sq_req, notSql>>

-----------------------------------------------------------------------------
(* The server process: lifespan, the event loop and the handlers *)

TaskIds == 1..MaxTasks

NoTask == [kind |-> "none", st |-> "absent", req |-> NoRequest,
           resp |-> NoResponse]

NewTask(kind) == [kind |-> kind, st |-> "ready", req |-> NoRequest,
                  resp |-> NoResponse]

\* the requests a client may send
RequestKinds == {"refresh", "execute_sql", "health"}

\* the states in which a coroutine occupies the thread of the event loop:
\* from its first statement to its return, since no handler awaits
OnLoop == {"entered", "in_refresh", "in_sql"}

\* LoopFree of a server that runs every handler on a thread of its own
LoopFreeAlways == TRUE

\* the event loop runs one coroutine at a time: _refresh_context_task,
\* refresh_context, execute_sql and health_check are all "async def"
LoopFree == \A t \in TaskIds : tasks[t].st \notin OnLoop

\* the slots are used in order
FreeSlot(t) ==
    /\ tasks[t].kind = "none"
    /\ t > 1 => tasks[t - 1].kind # "none"

\* lines 37-57: lifespan up to the yield
LifespanStartup ==
    /\ app = "starting"
    /\ scheduler' = CASE refresh_schedule = "unset"   -> "None"
                      [] refresh_schedule = "valid"   -> "running"
                      [] refresh_schedule = "invalid" -> "created"
    /\ lifespan_log' =
          CASE refresh_schedule = "unset"   -> <<>>
            [] refresh_schedule = "valid"   -> <<"Periodic refresh enabled">>
            [] refresh_schedule = "invalid" -> <<"Invalid cron expression">>
    /\ app' = "serving"
    /\ UNCHANGED <<refresh_schedule, tasks, remoteAhead, notSrv>>

\* scheduler.shutdown(wait=False): it stops a running scheduler and raises
\* SchedulerNotRunningError on one that was never started
SchedulerShutdown(state) ==
    IF state = "running"
    THEN [raised |-> FALSE, scheduler |-> "stopped"]
    ELSE [raised |-> TRUE, scheduler |-> state]

\* the server stops once no request is pending or being handled
Quiescent ==
    \A t \in TaskIds :
        /\ tasks[t].st \notin OnLoop
        /\ tasks[t].st = "ready" => tasks[t].kind = "tick"

\* lines 59-61: lifespan after the yield
LifespanShutdown ==
    /\ app = "serving"
    /\ Quiescent
    /\ IF scheduler # "None"
       THEN LET r == SchedulerShutdown(scheduler)
            IN  /\ scheduler' = r.scheduler
                /\ app' = IF r.raised THEN "shutdown_raised" ELSE "stopped"
       ELSE /\ app' = "stopped"
            /\ UNCHANGED scheduler
    /\ UNCHANGED <<refresh_schedule, lifespan_log, tasks, remoteAhead, notSrv>>

\* the cron trigger of the job added at lines 46-51 fires
Tick(t) ==
    /\ app = "serving"
    /\ scheduler = "running"
    /\ FreeSlot(t)
    /\ tasks' = [tasks EXCEPT ![t] = NewTask("tick")]
    /\ UNCHANGED <<refresh_schedule, scheduler, app, lifespan_log,
                   remoteAhead, notSrv>>

\* a client sends a request
Arrive(t) ==
    /\ app = "serving"
    /\ FreeSlot(t)
    /\ \E kind \in RequestKinds :
          tasks' = [tasks EXCEPT ![t] = NewTask(kind)]
    /\ UNCHANGED <<refresh_schedule, scheduler, app, lifespan_log,
                   remoteAhead, notSrv>>

\* the event loop starts the coroutine of a pending request or tick
Start(t) ==
    /\ app = "serving"
    /\ tasks[t].st = "ready"
    /\ LoopFree
    /\ tasks' = [tasks EXCEPT ![t].st = "entered"]
    /\ UNCHANGED <<refresh_schedule, scheduler, app, lifespan_log,
                   remoteAhead, notSrv>>

\* the context source gets a new revision
Push ==
    /\ app = "serving"
    /\ ~remoteAhead
    /\ remoteAhead' = TRUE
    /\ UNCHANGED <<refresh_schedule, scheduler, app, lifespan_log,
                   tasks, notSrv>>

\* provider.refresh(): true iff the local snapshot changed
ProviderRefresh(ahead) == [updated |-> ahead, ahead |-> FALSE]

RefreshResponse(updated) ==
    [status |-> 200,
     body |-> [status |-> "ok", updated |-> updated,
               message |-> IF updated THEN "Context updated successfully"
                           ELSE "Context already up-to-date"]]

\* RefreshDone that never reports an update
RefreshDoneNeverUpdated(kind, updated) ==
    IF kind = "tick"
    THEN [status |-> 0, printed |-> "already up-to-date"]
    ELSE RefreshResponse(FALSE)

\* what the handler of the task answers when refresh() returned updated
\* (lines 69-74 print, lines 200-211 respond)
RefreshDone(kind, updated) ==
    IF kind = "tick"
    THEN [status |-> 0,
          printed |-> IF updated THEN "refreshed" ELSE "already up-to-date"]
    ELSE RefreshResponse(updated)

\* lines 75-76 and 212-216
RefreshFailed(kind) ==
    IF kind = "tick"
    THEN [status |-> 0, printed |-> "failed"]
    ELSE HttpError(500, "Failed to refresh context", FALSE, <<>>)

\* lines 67-68 and 197-198: get_context_provider(), then refresh() is entered
RefreshCall(t) ==
    /\ tasks[t].kind \in {"tick", "refresh"}
    /\ tasks[t].st = "entered"
    /\ \E provider_ok \in BOOLEAN :
          tasks' = IF provider_ok
                   THEN [tasks EXCEPT ![t].st = "in_refresh"]
                   ELSE [tasks EXCEPT ![t].st = "done",
                                      ![t].resp = RefreshFailed(tasks[t].kind)]
    /\ UNCHANGED <<refresh_schedule, scheduler, app, lifespan_log,
                   remoteAhead, notSrv>>

\* refresh() returns or raises, and the handler ends
RefreshReturn(t) ==
    /\ tasks[t].st = "in_refresh"
    /\ \E raised \in BOOLEAN :
          IF raised
          THEN /\ tasks' = [tasks EXCEPT ![t].st = "done",
                               ![t].resp = RefreshFailed(tasks[t].kind)]
               /\ UNCHANGED remoteAhead
          ELSE LET r == ProviderRefresh(remoteAhead)
               IN  /\ tasks' = [tasks EXCEPT ![t].st = "done",
                                   ![t].resp = RefreshDone(tasks[t].kind,
                                                           r.updated)]
                   /\ remoteAhead' = r.ahead
    /\ UNCHANGED <<refresh_schedule, scheduler, app, lifespan_log, notSrv>>

\* lines 166-184
HealthReturn(t) ==
    /\ tasks[t].kind = "health"
    /\ tasks[t].st = "entered"
    /\ \E provider_ok \in BOOLEAN, initialized \in BOOLEAN :
          tasks' = [tasks EXCEPT
                      ![t].st = "done",
                      ![t].resp =
                          [status |-> 200,
                           body |-> [status |-> IF provider_ok THEN "ok"
                                                ELSE "error",
                                     context_source |-> "local",
                                     context_initialized |->
                                         provider_ok /\ initialized,
                                     refresh_schedule |-> refresh_schedule]]]
    /\ UNCHANGED <<refresh_schedule, scheduler, app, lifespan_log,
                   remoteAhead, notSrv>>

\* the /execute_sql requests sent to the server of the model
ServerSqlRequests ==
    [nao_project_folder : {"project"},
     database_id : {NoDatabaseId},
     load : {"ok"},
     databases : {<<[name |-> "a"]>>, <<[name |-> "a"], [name |-> "b"]>>},
     exec : {Raises, [columns |-> <<Label("str", "x")>>,
                      rows |-> << <<V("Decimal", "1.5")>> >>]}]

\* lines 221-263: the handler up to the call of db_config.execute_sql, which
\* it enters unless an exception ended it before
SqlCall(t) ==
    /\ tasks[t].kind = "execute_sql"
    /\ tasks[t].st = "entered"
    /\ \E request \in ServerSqlRequests :
          LET r == execute_sql(request, cwd)
          IN  /\ cwd' = r.cwd
              /\ tasks' = IF r.executed = <<>>
                          THEN [tasks EXCEPT ![t].st = "done",
                                             ![t].req = request,
                                             ![t].resp = r.resp]
                          ELSE [tasks EXCEPT ![t].st = "in_sql",
                                             ![t].req = request]
    /\ UNCHANGED <<refresh_schedule, scheduler, app, lifespan_log, remoteAhead, syncVars,
                   convVars, fnVars, sq_pc, sq_req, sq_resp, sq_executed>>

\* lines 263-280: the statement returns or raises, and the handler responds
SqlReturn(t) ==
    /\ tasks[t].st = "in_sql"
    /\ tasks' = [tasks EXCEPT ![t].st = "done",
                              ![t].resp = execute_sql(tasks[t].req, cwd).resp]
    /\ UNCHANGED <<refresh_schedule, scheduler, app, lifespan_log,
                   remoteAhead, notSrv>>

InitSrvIdle ==
    /\ refresh_schedule = "unset"
    /\ scheduler = "None"
    /\ app = "off"
    /\ lifespan_log = <<>>
    /\ tasks = [t \in TaskIds |-> NoTask]
    /\ remoteAhead = FALSE

InitServer ==
    /\ refresh_schedule \in {"unset", "valid", "invalid"}
    /\ scheduler = "None"
    /\ app = "starting"
    /\ lifespan_log = <<>>
    /\ tasks = [t \in TaskIds |-> NoTask]
    /\ remoteAhead \in BOOLEAN

-----------------------------------------------------------------------------
(* parse_provider_arg and the provider registry *)

Notion       == <<"n", "o", "t", "i", "o", "n">>
Repositories == <<"r", "e", "p", "o", "s", "i", "t", "o", "r", "i", "e", "s">>
Databases    == <<"d", "a", "t", "a", "b", "a", "s", "e", "s">>
Confluence   == <<"c", "o", "n", "f", "l", "u", "e", "n", "c", "e">>

\* lines 12-17: CLI name -> provider instance
PROVIDER_REGISTRY ==
    [k \in {Notion, Repositories, Databases, Confluence} |->
        CASE k = Notion       -> "NotionSyncProvider"
          [] k = Repositories -> "RepositorySyncProvider"
          [] k = Databases    -> "DatabaseSyncProvider"
          [] k = Confluence   -> "ConfluenceSyncProvider"]

\* line 23: the keys in the order of the dict
PROVIDER_CHOICES == <<Notion, Repositories, Databases, Confluence>>

\* the text before the first ':' of the tokens of the model
NameParts ==
    {Notion, Repositories, Databases, Confluence,
     <<"C", "o", "n", "f", "l", "u", "e", "n", "c", "e">>,
     <<"d", "A", "t", "A", "B", "A", "s", "e", "s">>,
     <<"n", "o", "t", "i", "o", "n", " ">>,
     <<"d", "b">>, <<>>}

\* what follows the name: nothing, or ':' and more text
RestParts ==
    {<<>>, <<":">>, <<":", "x">>, <<":", "a", ":", "b">>, <<":", ":">>,
     <<":", "A">>}

ProviderArgs == {n \o r : n \in NameParts, r \in RestParts}

NoConnection == [given |-> FALSE, name |-> <<>>]
Connection(s) == [given |-> TRUE, name |-> s]

\* FirstColon that finds the last ':' (rsplit in place of split)
LastColon(arg) ==
    LET hits == {i \in 1..Len(arg) : arg[i] = ":"}
    IN  IF hits = {} THEN 0 ELSE CHOOSE i \in hits : \A j \in hits : j <= i

\* the place where arg.split(":", 1) cuts, 0 when ":" is not in arg
FirstColon(arg) ==
    LET hits == {i \in 1..Len(arg) : arg[i] = ":"}
    IN  IF hits = {} THEN 0 ELSE CHOOSE i \in hits : \A j \in hits : i <= j

\* lines 39-59
parse_provider_arg(arg) ==
    LET cut == FirstColon(arg)
        provider_name == IF cut > 0 THEN SubSeq(arg, 1, cut - 1) ELSE arg
        connection_name == IF cut > 0
                           THEN Connection(SubSeq(arg, cut + 1, Len(arg)))
                           ELSE NoConnection
        provider_name_lower == Lower(provider_name)
    IN  IF provider_name_lower \notin DOMAIN PROVIDER_REGISTRY
        THEN [raised |-> TRUE,
              error |-> [type |-> "ValueError",
                         unknown |-> provider_name,
                         valid |-> PROVIDER_CHOICES]]
        ELSE [raised |-> FALSE,
              provider |-> PROVIDER_REGISTRY[provider_name_lower],
              connection_name |-> connection_name]

NoCall == [none |-> TRUE]

InitFnIdle ==
    /\ fn_name = "idle"
    /\ fn_pc = "idle"
    /\ fn_in = NoCall
    /\ fn_out = NoCall

InitParse ==
    /\ fn_name = "parse_provider_arg"
    /\ fn_pc = "call"
    /\ fn_in \in ProviderArgs
    /\ fn_out = NoCall

ParseCall ==
    /\ fn_name = "parse_provider_arg"
    /\ fn_pc = "call"
    /\ fn_out' = parse_provider_arg(fn_in)
    /\ fn_pc' = "returned"
    /\ UNCHANGED <<fn_name, fn_in, notFn>>

-----------------------------------------------------------------------------
(* check_llm_connection *)

\* models an SDK lists at most
MaxModels == 2

\* the values of LLMProvider
LLMProviders == {"openai", "anthropic", "mistral", "gemini", "ollama"}

\* the providers whose SDK is imported without a guard and used by a client
ClientProviders == {"openai", "anthropic", "gemini", "mistral"}

\* what list() returns: an object with or without __len__, holding n models,
\* whose iteration may raise
ModelObjects ==
    [has_len : BOOLEAN, n : 0..MaxModels, iter_raises : BOOLEAN]

\* the name in llm_config.provider.value and what the SDK does
LlmCalls ==
    [provider : LLMProviders \cup {"super big model"},
     import_ok : BOOLEAN,
     client : {"ok", "raises"},
     list : {"ok", "raises"},
     models : ModelObjects]

Raise(e) == [raised |-> TRUE, exc |-> e]
Return(success, message) ==
    [raised |-> FALSE, success |-> success, message |-> message]

\* lines 12-17
_count(models) ==
    IF models.has_len THEN [raised |-> FALSE, count |-> models.n]
    ELSE IF models.iter_raises THEN Raise("iteration failed")
    ELSE [raised |-> FALSE, count |-> models.n]

\* lines 54-55
CountAndReport(models) ==
    LET model_count == _count(models)
    IN  IF model_count.raised THEN model_count
        ELSE Return(TRUE, <<"Connected successfully", model_count.count,
                            "models available">>)

\* lines 20-55
_check_available_models(call) ==
    IF call.provider \in ClientProviders
    THEN IF ~call.import_ok THEN Raise("ModuleNotFoundError")
         ELSE IF call.client = "raises" THEN Raise("client failed")
         ELSE IF call.list = "raises" THEN Raise("list failed")
         ELSE CountAndReport(call.models)
    ELSE IF call.provider = "ollama"
    THEN IF ~call.import_ok
         THEN Return(FALSE, <<"Provider 'ollama' requires the optional dependency">>)
         ELSE IF call.list = "raises" THEN Raise("list failed")
         ELSE CountAndReport(call.models)
    ELSE Return(FALSE, <<"Unknown provider", call.provider>>)

\* check_llm_connection without its try block
check_llm_connection_uncaught(llm_config) ==
    _check_available_models(llm_config)

\* lines 58-67
check_llm_connection(llm_config) ==
    LET r == _check_available_models(llm_config)
    IN  IF r.raised THEN Return(FALSE, <<r.exc>>) ELSE r

InitLlm ==
    /\ fn_name = "check_llm_connection"
    /\ fn_pc = "call"
    /\ fn_in \in LlmCalls
    /\ fn_out = NoCall

LlmCall ==
    /\ fn_name = "check_llm_connection"
    /\ fn_pc = "call"
    /\ fn_out' = check_llm_connection(fn_in)
    /\ fn_pc' = "returned"
    /\ UNCHANGED <<fn_name, fn_in, notFn>>

-----------------------------------------------------------------------------
(* _get_all_pages, one request at a time *)

\* pages a space of the model holds at most
MaxPages == 101

\* the listing of a space of n pages
ListingOf(n) == [i \in 1..n |-> i]

\* the locals of _get_all_pages, and the offsets requested so far
StartLocals == [all_pages |-> <<>>, start |-> 0, requests |-> <<>>]

\* WhileStep that goes on after a short response and stops at an empty one
WhileStepUntilEmpty(listing, l) ==
    LET pages == GetPagesFromSpace(listing, l.start, Limit)
        requests == Append(l.requests, l.start)
    IN  IF pages = <<>>
        THEN [break |-> TRUE, locals |-> [l EXCEPT !.requests = requests]]
        ELSE [break |-> FALSE,
              locals |-> [all_pages |-> l.all_pages \o pages,
                          start |-> l.start + Limit,
                          requests |-> requests]]

\* lines 209-216: one iteration of the while loop
WhileStep(listing, l) ==
    LET pages == GetPagesFromSpace(listing, l.start, Limit)
        requests == Append(l.requests, l.start)
    IN  IF pages = <<>>
        THEN [break |-> TRUE, locals |-> [l EXCEPT !.requests = requests]]
        ELSE IF Len(pages) < Limit
        THEN [break |-> TRUE,
              locals |-> [all_pages |-> l.all_pages \o pages,
                          start |-> l.start,
                          requests |-> requests]]
        ELSE [break |-> FALSE,
              locals |-> [all_pages |-> l.all_pages \o pages,
                          start |-> l.start + Limit,
                          requests |-> requests]]

InitPages ==
    /\ fn_name = "_get_all_pages"
    /\ fn_pc = "while"
    /\ fn_in \in 0..MaxPages
    /\ fn_out = StartLocals

PageRequest ==
    /\ fn_name = "_get_all_pages"
    /\ fn_pc = "while"
    /\ LET r == WhileStep(ListingOf(fn_in), fn_out)
       IN  /\ fn_out' = r.locals
           /\ fn_pc' = IF r.break THEN "returned" ELSE "while"
    /\ UNCHANGED <<fn_name, fn_in, notFn>>

-----------------------------------------------------------------------------
(* The synchronisation runs on one output directory *)

InitSync ==
    /\ \E exists \in BOOLEAN, units \in {{}, ForeignUnits} :
          /\ dirExists = exists
          /\ fs = IF exists THEN MergeFs(units) ELSE EmptyFs
    /\ items = <<>>
    /\ import_ok = TRUE
    /\ upstream = {}
    /\ pc = "idle"
    /\ spaceIdx = 1
    /\ all_pages_to_sync = <<>>
    /\ pageIdx = 1
    /\ total_pages_synced = 0
    /\ synced_pages = <<>>
    /\ synced_files = {}
    /\ removed_count = 0
    /\ result = NoResult
    /\ run = 0
    /\ listFailed = {}
    /\ pageOutcome = <<>>
    /\ cleanupCalls = 0
    /\ deleted = {}
    /\ wroteAfterDelete = FALSE
    /\ fsAtStart = EmptyFs
    /\ prev = NoPrev

Init == InitSync /\ InitConvIdle /\ InitSqlIdle /\ InitSrvIdle /\ InitFnIdle

Next ==
    \/ SyncNoItems
    \/ SyncImportError
    \/ SyncBegin
    \/ CollectSpace
    \/ SyncNoPages
    \/ SyncStartPages
    \/ SyncPage
    \/ SyncCleanup

Spec == Init /\ [][Next]_vars

-----------------------------------------------------------------------------
(* The other specifications: one call of _convert_value, one call of the    *)
(* /execute_sql handler, and one server process                            *)

\* no sync has run and the output directory does not exist
InitSyncIdle == InitSync /\ ~dirExists

InitConvertOnly ==
    InitSyncIdle /\ InitConvert /\ InitSqlIdle /\ InitSrvIdle /\ InitFnIdle

SpecConvert == InitConvertOnly /\ [][ConvertCall]_vars

InitSqlOnly ==
    InitSyncIdle /\ InitConvIdle /\ InitSql /\ InitSrvIdle /\ InitFnIdle

SpecSql == InitSqlOnly /\ [][ExecuteSqlCall]_vars

InitParseOnly ==
    InitSyncIdle /\ InitConvIdle /\ InitSqlIdle /\ InitSrvIdle /\ InitParse

SpecParse == InitParseOnly /\ [][ParseCall]_vars

InitLlmOnly ==
    InitSyncIdle /\ InitConvIdle /\ InitSqlIdle /\ InitSrvIdle /\ InitLlm

SpecLlm == InitLlmOnly /\ [][LlmCall]_vars

InitPagesOnly ==
    InitSyncIdle /\ InitConvIdle /\ InitSqlIdle /\ InitSrvIdle /\ InitPages

\* the loop goes on as long as it has not reached a break
SpecPages == InitPagesOnly /\ [][PageRequest]_vars /\ WF_vars(PageRequest)

NextServer ==
    \/ LifespanStartup
    \/ LifespanShutdown
    \/ Push
    \/ \E t \in TaskIds : Tick(t)
    \/ \E t \in TaskIds : Arrive(t)
    \/ \E t \in TaskIds : Start(t)
    \/ \E t \in TaskIds : RefreshCall(t)
    \/ \E t \in TaskIds : RefreshReturn(t)
    \/ \E t \in TaskIds : HealthReturn(t)
    \/ \E t \in TaskIds : SqlCall(t)
    \/ \E t \in TaskIds : SqlReturn(t)

InitServerOnly ==
    InitSyncIdle /\ InitConvIdle /\ InitSqlIdle /\ InitServer /\ InitFnIdle

SpecServer == InitServerOnly /\ [][NextServer]_vars

-----------------------------------------------------------------------------
(* cleanup_stale_pages called on its own *)

\* files that earlier runs may have left under output_path
PageUnits == {(<<PageFilename(p)>> :> FileEntry(p, TRUE)) : p \in {1, 2, 4}}

\* the synced_files arguments tried
SyncedNames == {PageFilename(1), PageFilename(2), OldMd, NestedMd, DirMd}

InitCleanup ==
    /\ \E exists \in BOOLEAN, units \in SUBSET (ForeignUnits \cup PageUnits) :
          /\ dirExists = exists
          /\ fs = IF exists THEN MergeFs(units) ELSE EmptyFs
          /\ fsAtStart = fs
    /\ synced_files \in SUBSET SyncedNames
    /\ pc = "cleanup_call"
    /\ items = <<>>
    /\ import_ok = TRUE
    /\ upstream = {}
    /\ spaceIdx = 1
    /\ all_pages_to_sync = <<>>
    /\ pageIdx = 1
    /\ total_pages_synced = 0
    /\ synced_pages = <<>>
    /\ removed_count = 0
    /\ result = NoResult
    /\ run = 0
    /\ listFailed = {}
    /\ pageOutcome = <<>>
    /\ cleanupCalls = 0
    /\ deleted = {}
    /\ wroteAfterDelete = FALSE
    /\ prev = NoPrev
    /\ InitConvIdle
    /\ InitSqlIdle
    /\ InitSrvIdle
    /\ InitFnIdle

\* lines 16-39, from the call to the return
CleanupCall ==
    /\ pc = "cleanup_call"
    /\ LET r == cleanup_stale_pages(synced_files, dirExists, fs)
       IN  /\ fs' = r.fs
           /\ removed_count' = r.removed_count
    /\ cleanupCalls' = cleanupCalls + 1
    /\ pc' = "cleanup_returned"
    /\ UNCHANGED <<dirExists, items, import_ok, upstream, spaceIdx,
                   all_pages_to_sync, pageIdx, total_pages_synced,
                   synced_pages, synced_files, result, run, listFailed,
                   pageOutcome, deleted, wroteAfterDelete, fsAtStart, prev>>
    /\ UNCHANGED notSync

SpecCleanup == InitCleanup /\ [][CleanupCall]_vars

-----------------------------------------------------------------------------
(* Properties of the synchronisation *)

\* the pages the run has to reach: those upstream, when the run gets as far
\* as listing the spaces
CurUpstream == IF items # <<>> /\ import_ok THEN upstream ELSE {}

\* the run is over and every listing and every page of it succeeded
CleanRunDone == pc = "done" /\ RunClean

\* two consecutive runs with the same arguments, all fetches succeeding
TwoCleanRuns ==
    /\ CleanRunDone
    /\ prev.clean
    /\ prev.items = items
    /\ prev.import_ok = import_ok

RemovedReported(n) ==
    /\ result.kind = "SyncResult"
    /\ \E k \in DOMAIN result.details : k = "removed"
    /\ result.details.removed = n
    /\ result.summary.stale_removed = <<n>>

\* the filename of p is a proper .md name that no other page of either run
\* shares
OwnFilename(p) ==
    /\ Suffix(PageFilename(p)) = MdSuffix
    /\ \A q \in (upstream \cup prev.upstream) \ {p} :
          PageFilename(q) # PageFilename(p)

\* C1: reconciliation convergence.  After two consecutive runs whose listings
\* and page fetches all succeed, a page that was upstream in the first run and
\* is the one page missing in the second has no file under output_path any
\* more, and the second run reports exactly one removal, whatever the second
\* upstream page set is.  (Stated for pages whose filename is their own.)
C1_Convergence ==
    (TwoCleanRuns /\ items # <<>> /\ import_ok) =>
        \A p \in prev.upstream \ upstream :
            (prev.upstream \ upstream = {p} /\ OwnFilename(p)) =>
                /\ ~Exists(fs, <<PageFilename(p)>>)
                /\ RemovedReported(1)

\* C2: reconciliation idempotence.  A run that follows a run with the same
\* arguments on an unchanged upstream, all fetches succeeding both times,
\* leaves the directory with the same entries as it found it and removes
\* nothing.
C2_Idempotence ==
    (TwoCleanRuns /\ prev.upstream = CurUpstream) =>
        /\ MdFiles(fs) = MdFiles(fsAtStart)
        /\ DOMAIN fs = DOMAIN fsAtStart
        /\ removed_count = 0
        /\ deleted = {}
        /\ result.kind = "SyncResult"
        /\ \A k \in DOMAIN result.details :
              k = "removed" => result.details.removed = 0

\* a second run on an unchanged upstream of several pages has ended
C2_Witness ==
    /\ TwoCleanRuns
    /\ prev.upstream = CurUpstream
    /\ run = 2
    /\ total_pages_synced >= 2
    /\ cleanupCalls = 1

\* what cleanup_stale_pages has to delete: the regular files directly under
\* output_path with suffix .md whose name is not in synced_files
MustDelete(f, synced) ==
    {path \in DOMAIN f :
        /\ Len(path) = 1
        /\ f[path].kind = "file"
        /\ Suffix(path[1]) = MdSuffix
        /\ path[1] \notin synced}

\* C3: cleanup_stale_pages deletes exactly the regular .md files directly
\* under output_path that are not named in synced_files and returns their
\* number; everything else stays as it was; a missing output_path gives 0 and
\* changes nothing.
C3_CleanupExact ==
    pc = "cleanup_returned" =>
        /\ DOMAIN fsAtStart \ DOMAIN fs = MustDelete(fsAtStart, synced_files)
        /\ \A path \in DOMAIN fs :
              /\ \E q \in DOMAIN fsAtStart : q = path
              /\ fs[path] = fsAtStart[path]
        /\ removed_count = Cardinality(MustDelete(fsAtStart, synced_files))
        /\ ~dirExists => (removed_count = 0 /\ fs = fsAtStart)

\* a call that deleted a stale file and kept a synced file, a file of another
\* type, a directory named like a page and the file inside it
C3_Witness ==
    /\ pc = "cleanup_returned"
    /\ removed_count >= 1
    /\ Exists(fs, <<PageFilename(1)>>)
    /\ PageFilename(1) \in synced_files
    /\ Exists(fs, <<NotesTxt>>)
    /\ Exists(fs, <<DirMd>>)
    /\ DirMd \notin synced_files
    /\ Exists(fs, <<DirMd, NestedMd>>)
    /\ NestedMd \notin synced_files

\* a call on a missing output_path has returned
C3_WitnessMissing ==
    /\ pc = "cleanup_returned"
    /\ ~dirExists

\* the pages of this run that were upstream and not synced: their space could
\* not be listed, or their own iteration raised
Unreached ==
    {p \in CurUpstream : PageSpace(p) \in listFailed} \cup
    {pageOutcome[i].page : i \in {j \in 1..Len(pageOutcome) :
                                     pageOutcome[j].outcome # "ok"}}

\* the file a page left under output_path in an earlier run
PreviouslySynced(p) ==
    /\ Exists(fsAtStart, <<PageFilename(p)>>)
    /\ fsAtStart[<<PageFilename(p)>>] = FileEntry(p, TRUE)
    /\ Suffix(PageFilename(p)) = MdSuffix

\* C4: a partial run does not reconcile.  When a run could not list a space
\* or could not sync a page, the files that the unreached pages got in an
\* earlier run are not deleted.
C4_PartialRunKeepsFiles ==
    (pc = "done" /\ ~RunClean) =>
        \A p \in Unreached :
            PreviouslySynced(p) => PageFilename(p) \notin deleted

\* the pages that the space loop has to collect: those of the configured
\* spaces whose listing did not raise, space by space
RECURSIVE Collected(_, _, _)
Collected(spaces, failed, up) ==
    IF spaces = <<>> THEN <<>>
    ELSE (IF Head(spaces) \in failed THEN <<>>
          ELSE SpaceListing(up, Head(spaces)))
         \o Collected(Tail(spaces), failed, up)

OkIndexes == {i \in 1..Len(pageOutcome) : pageOutcome[i].outcome = "ok"}

\* C5: failure isolation.  A page whose iteration raises changes neither the
\* count nor the tracked names, every other collected page is still
\* processed, and the run returns a SyncResult; a space whose listing raises
\* does not keep the pages of the other spaces from being collected.
C5_FailureIsolation ==
    /\ pc = "pages" =>
          all_pages_to_sync = Collected(ConfiguredSpaces, listFailed, upstream)
    /\ (pc = "done" /\ items # <<>> /\ import_ok
            /\ Len(all_pages_to_sync) > 0) =>
          /\ all_pages_to_sync =
                Collected(ConfiguredSpaces, listFailed, upstream)
          /\ Len(pageOutcome) = Len(all_pages_to_sync)
          /\ \A i \in 1..Len(pageOutcome) :
                pageOutcome[i].page = all_pages_to_sync[i]
          /\ result.kind = "SyncResult"
          /\ result.items_synced = Cardinality(OkIndexes)
          /\ Len(synced_pages) = Cardinality(OkIndexes)
          /\ synced_files =
                {PageFilename(pageOutcome[i].page) : i \in OkIndexes}
    /\ pc = "done" => result.kind = "SyncResult"

\* a run in which one space could not be listed, and a page raised before a
\* later page was synced
C5_Witness ==
    /\ pc = "done"
    /\ listFailed = {1}
    /\ Len(pageOutcome) = 2
    /\ pageOutcome[1].outcome # "ok"
    /\ pageOutcome[2].outcome = "ok"
    /\ result.kind = "SyncResult"
    /\ result.items_synced = 1

-----------------------------------------------------------------------------
(* Properties of the server process *)

Refreshing == {t \in TaskIds : tasks[t].st = "in_refresh"}

\* C6: in one server process at most one call of the provider's refresh() is
\* executing at any time, whether scheduled ticks or POST /api/refresh
\* requests started them.
C6_RefreshMutualExclusion == Cardinality(Refreshing) <= 1

\* a scheduled tick is inside refresh() while a manual refresh is pending, and
\* a manual refresh is inside refresh() while a tick is pending
C6_Witness ==
    \E t, u, w \in TaskIds :
        /\ tasks[t].kind = "tick" /\ tasks[t].st = "done"
        /\ tasks[u].kind = "refresh" /\ tasks[u].st = "in_refresh"
        /\ tasks[w].kind = "tick" /\ tasks[w].st = "ready"

\* C7: while one /execute_sql request is executing its statement, the server
\* can start the handling of any other pending request.
C7_SqlDoesNotBlock ==
    \A t, u \in TaskIds :
        (tasks[t].kind = "execute_sql" /\ tasks[t].st = "in_sql"
            /\ tasks[u].st = "ready")
        => ENABLED Start(u)

-----------------------------------------------------------------------------
(* Properties of the /execute_sql handler *)

SqlReturned == sq_pc = "returned"

\* the request failed and its detail carries the names of all configurations
FailsListing(resp, databases) ==
    /\ resp.status >= 400
    /\ resp.detail.listed
    /\ resp.detail.available_databases = AvailableDatabases(databases)

\* C8: zero configurations: the request fails and no SQL runs; one: it is
\* used whatever database_id is; several with a database_id: the one of that
\* name is used, or the request fails listing all names when none matches;
\* several without database_id: the request fails listing all names; a
\* failing request runs no SQL.
C8_ResolutionTable ==
    (SqlReturned /\ sq_req.load = "ok") =>
        LET databases == sq_req.databases
            id == sq_req.database_id
            matches == {i \in 1..Len(databases) : databases[i].name = id.id}
        IN  /\ Len(databases) = 0 =>
                 sq_resp.status >= 400 /\ sq_executed = <<>>
            /\ Len(databases) = 1 => sq_executed = <<1>>
            /\ (Len(databases) > 1 /\ id.given /\ matches # {}) =>
                 \E i \in matches : sq_executed = <<i>>
            /\ (Len(databases) > 1 /\ id.given /\ matches = {}) =>
                 FailsListing(sq_resp, databases) /\ sq_executed = <<>>
            /\ (Len(databases) > 1 /\ ~id.given) =>
                 FailsListing(sq_resp, databases) /\ sq_executed = <<>>

\* C9: in every successful response row_count is the number of rows of data,
\* which is the number of rows the driver returned, and the keys of every
\* row are the names listed in columns.
C9_QueryResultInvariant ==
    (SqlReturned /\ sq_resp.status = 200) =>
        LET body == sq_resp.body
        IN  /\ body.row_count = Len(body.data)
            /\ Len(body.data) = Len(sq_req.exec.rows)
            /\ \A i \in 1..Len(body.data) :
                  {JsonKey(k) : k \in DOMAIN body.data[i]}
                      = {body.columns[j] : j \in 1..Len(body.columns)}

\* a result of two rows whose two columns differ
C9_Witness ==
    /\ SqlReturned
    /\ sq_resp.status = 200
    /\ sq_resp.body.row_count = 2
    /\ sq_resp.body.columns = <<"x", "y">>
    /\ sq_resp.body.data[2][Label("str", "y")] = None

-----------------------------------------------------------------------------
(* Properties of _convert_value *)

ConvertReturned == cv_pc = "returned"

\* a native float, a numpy floating scalar or a Decimal
IsNumber(x) == x.t \in {"float", "Decimal"} \cup NpFloatTypes

\* its value is NaN, +Infinity or -Infinity
NonFinite(x) == x.v \in {"nan", "snan", "inf", "-inf"}

\* C10 as stated: a non-finite float, numpy floating scalar or Decimal gives
\* None, and a finite one gives a native float, never None.
C10_NonFiniteToNone ==
    (ConvertReturned /\ IsNumber(cv_in)) =>
        IF NonFinite(cv_in) THEN cv_out = None
        ELSE cv_out.t = "float" /\ cv_out # None

\* C10 as amended: a non-finite float, numpy floating scalar or Decimal gives
\* None; a finite one gives a native float, never None, except that a finite
\* numpy floating scalar whose magnitude exceeds the range of a double gives
\* None.
C10_NonFiniteToNoneAmended ==
    (ConvertReturned /\ IsNumber(cv_in)) =>
        IF NonFinite(cv_in) THEN cv_out = None
        ELSE IF IsNpFloating(cv_in) /\ cv_in.v \in HugeVals THEN cv_out = None
        ELSE cv_out.t = "float" /\ cv_out # None

C10_Witness ==
    /\ ConvertReturned
    /\ cv_in = V("Decimal", "-inf")
    /\ cv_out = None

\* C11: for an ndarray the result is a sequence of the same length whose i-th
\* element is _convert_value of the i-th element of the array, so that a NaN
\* or infinite element becomes None.
C11_ArrayElementwise ==
    (ConvertReturned /\ cv_in.t = "np.ndarray") =>
        /\ cv_out.t = "list"
        /\ Len(cv_out.v) = Len(cv_in.v)
        /\ \A i \in 1..Len(cv_in.v) : cv_out.v[i] = _convert_value(cv_in.v[i])

\* v matched none of the rules before the catch-all, and has a callable item
ReachesCatchAll(x) ==
    /\ x # None
    /\ ~(IsFloat(x) /\ (IsNan(x) \/ IsInf(x)))
    /\ x.t \notin {"pd.NA", "pd.NaT", "np.bool_", "np.int64", "np.ndarray",
                   "Decimal", "datetime", "date"}
    /\ ~IsNpFloating(x)
    /\ ~IsBytes(x)
    /\ HasItem(x)

\* C12: for a value that reaches the catch-all rule the result is
\* _convert_value of the materialized value item().
C12_CatchAllRecursive ==
    (ConvertReturned /\ ReachesCatchAll(cv_in)) =>
        cv_out = _convert_value(ItemOf(cv_in))

-----------------------------------------------------------------------------
(* Properties of parse_provider_arg *)

ParseReturned == fn_name = "parse_provider_arg" /\ fn_pc = "returned"

HasColon(arg) == \E i \in 1..Len(arg) : arg[i] = ":"

\* arg is name, ':' and rest, and name holds no ':'
SplitsAs(arg, name, rest) ==
    /\ arg = name \o <<":">> \o rest
    /\ ~HasColon(name)

\* the provider the registry holds for the name compared case-insensitively
Registered(name, provider) ==
    \E k \in DOMAIN PROVIDER_REGISTRY :
        /\ Lower(k) = Lower(name)
        /\ provider = PROVIDER_REGISTRY[k]

IsKnown(name) == \E k \in DOMAIN PROVIDER_REGISTRY : Lower(k) = Lower(name)

AllNamesListed(error) ==
    {error.valid[i] : i \in 1..Len(error.valid)} = DOMAIN PROVIDER_REGISTRY

\* C13: the token is split on its first ':' only; the part before it,
\* compared case-insensitively, must be a key of PROVIDER_REGISTRY and the
\* provider registered for it is returned, otherwise an error listing all
\* valid names is raised; the part after the first ':' is returned unchanged
\* as connection_name, which is None exactly when the token holds no ':'.
C13_ParseProviderArg ==
    ParseReturned =>
        LET arg == fn_in
            name == IF HasColon(arg)
                    THEN CHOOSE n \in {SubSeq(arg, 1, i) : i \in 0..Len(arg)} :
                            \E r \in {SubSeq(arg, i, Len(arg)) :
                                          i \in 1..Len(arg) + 1} :
                                SplitsAs(arg, n, r)
                    ELSE arg
        IN  IF IsKnown(name)
            THEN /\ ~fn_out.raised
                 /\ Registered(name, fn_out.provider)
                 /\ fn_out.connection_name.given = HasColon(arg)
                 /\ HasColon(arg) =>
                        SplitsAs(arg, name, fn_out.connection_name.name)
            ELSE /\ fn_out.raised
                 /\ AllNamesListed(fn_out.error)

\* 'dAtABAses:a:b' gives the databases provider and the connection 'a:b'
C13_Witness ==
    /\ ParseReturned
    /\ fn_in = <<"d", "A", "t", "A", "B", "A", "s", "e", "s", ":", "a", ":", "b">>
    /\ fn_out = [raised |-> FALSE, provider |-> "DatabaseSyncProvider",
                 connection_name |-> Connection(<<"a", ":", "b">>)]

-----------------------------------------------------------------------------
(* Properties of the lifespan *)

\* C14: with an invalid cron expression in NAO_REFRESH_SCHEDULE the error is
\* reported, no refresh job is ever scheduled or run, startup completes and
\* requests are served, and the lifespan, shutdown included, does not raise.
C14_InvalidCronNotFatal ==
    refresh_schedule = "invalid" =>
        /\ app # "starting" => lifespan_log = <<"Invalid cron expression">>
        /\ scheduler # "running"
        /\ \A t \in TaskIds : tasks[t].kind # "tick"
        /\ app = "serving" => \E t \in TaskIds : ENABLED Arrive(t)
                                  \/ tasks[MaxTasks].kind # "none"
        /\ app # "shutdown_raised"

-----------------------------------------------------------------------------
(* Properties of POST /api/refresh *)

\* the handler of the /api/refresh request t responds in this step
RefreshResponds(t) ==
    /\ tasks[t].kind = "refresh"
    /\ tasks[t].st # "done"
    /\ tasks'[t].st = "done"

\* the response is a success whose updated flag is what refresh() returns:
\* whether the context source had a revision the snapshot lacked
SuccessReporting(resp, ahead) ==
    /\ resp.status = 200
    /\ resp.body.status = "ok"
    /\ resp.body.updated = ahead

\* C15 as stated: a refresh against an unchanged context source answers
\* "ok" with updated = false, however often it is repeated; the updated flag
\* of a response is the boolean refresh() returned; only an exception raised
\* by refresh() makes the response an error.
C15_RefreshIdempotence ==
    [][\A t \in TaskIds :
          RefreshResponds(t) =>
              \/ /\ tasks[t].st = "in_refresh"
                 /\ SuccessReporting(tasks'[t].resp, remoteAhead)
                 /\ ~remoteAhead'
              \/ /\ tasks[t].st = "in_refresh"
                 /\ tasks'[t].resp.status = 500]_vars

\* C15 as amended: as stated, but an exception raised by
\* get_context_provider() makes the response an error as well.
C15_RefreshIdempotenceAmended ==
    [][\A t \in TaskIds :
          RefreshResponds(t) =>
              \/ /\ tasks[t].st = "in_refresh"
                 /\ SuccessReporting(tasks'[t].resp, remoteAhead)
                 /\ ~remoteAhead'
              \/ /\ tasks[t].st \in {"entered", "in_refresh"}
                 /\ tasks'[t].resp.status = 500]_vars

\* two /api/refresh requests were answered "already up-to-date", and a
\* third found an update
C15_Witness ==
    \E t, u, w \in TaskIds :
        /\ t < u
        /\ tasks[t].kind = "refresh" /\ tasks[t].st = "done"
        /\ tasks[t].resp = RefreshResponse(FALSE)
        /\ tasks[u].kind = "refresh" /\ tasks[u].st = "done"
        /\ tasks[u].resp = RefreshResponse(FALSE)
        /\ tasks[w].kind = "refresh" /\ tasks[w].st = "done"
        /\ tasks[w].resp = RefreshResponse(TRUE)

-----------------------------------------------------------------------------
(* Properties of check_llm_connection *)

LlmReturned == fn_name = "check_llm_connection" /\ fn_pc = "returned"

\* the exception the SDK raises in the call, "" when it raises none
SdkException(call) ==
    IF call.provider \in ClientProviders
    THEN IF ~call.import_ok THEN "ModuleNotFoundError"
         ELSE IF call.client = "raises" THEN "client failed"
         ELSE IF call.list = "raises" THEN "list failed"
         ELSE IF ~call.models.has_len /\ call.models.iter_raises
              THEN "iteration failed"
         ELSE ""
    ELSE IF call.provider = "ollama" /\ call.import_ok
    THEN IF call.list = "raises" THEN "list failed"
         ELSE IF ~call.models.has_len /\ call.models.iter_raises
              THEN "iteration failed"
         ELSE ""
    ELSE ""

\* C16: check_llm_connection never raises and returns a (success, message)
\* pair: (True, message with the number of models) when the listing
\* succeeds, (False, message naming the provider) for a provider name outside
\* the supported set, (False, the exception's text) when the SDK raises.
C16_NeverRaises ==
    LlmReturned =>
        /\ ~fn_out.raised
        /\ fn_out.success \in BOOLEAN
        /\ fn_in.provider \notin LLMProviders =>
              /\ ~fn_out.success
              /\ fn_out.message = <<"Unknown provider", fn_in.provider>>
        /\ SdkException(fn_in) # "" =>
              /\ ~fn_out.success
              /\ fn_out.message = <<SdkException(fn_in)>>
        /\ (fn_in.provider \in LLMProviders /\ SdkException(fn_in) = ""
                /\ (fn_in.provider = "ollama" => fn_in.import_ok)) =>
              /\ fn_out.success
              /\ fn_out.message[2] = fn_in.models.n

\* the SDK raised while the models were counted by iteration
C16_Witness ==
    /\ LlmReturned
    /\ fn_in.provider = "gemini"
    /\ ~fn_in.models.has_len /\ fn_in.models.iter_raises
    /\ fn_in.import_ok /\ fn_in.client = "ok" /\ fn_in.list = "ok"
    /\ fn_out = Return(FALSE, <<"iteration failed">>)

-----------------------------------------------------------------------------
(* Properties of the files of one sync run *)

\* C17: within one run two distinct pages never get the same filename, so no
\* page's file is overwritten by another page of the run, and the number of
\* files written by the run equals the number of pages synced.
C17_OneFilePerPage ==
    /\ \A i, j \in OkIndexes :
          i # j => PageFilename(pageOutcome[i].page)
                       # PageFilename(pageOutcome[j].page)
    /\ Cardinality(synced_files) = total_pages_synced

\* the names written with success by the pages processed so far
WrittenNames == {PageFilename(pageOutcome[i].page) : i \in OkIndexes}

\* C18: cleanup_stale_pages is invoked at most once per run, only after the
\* write attempt of every collected page has finished, with exactly the set
\* of filenames written with success in the run; no file is written after
\* the first deletion of the run.
C18_CleanupAfterWrites ==
    /\ cleanupCalls <= 1
    /\ cleanupCalls = 1 =>
          /\ Len(pageOutcome) = Len(all_pages_to_sync)
          /\ synced_files = WrittenNames
    /\ deleted # {} => cleanupCalls = 1
    /\ ~wroteAfterDelete

\* a run with a failed and a written page whose cleanup deleted a file
C18_Witness ==
    /\ pc = "done"
    /\ cleanupCalls = 1
    /\ deleted # {}
    /\ Len(pageOutcome) >= 2
    /\ OkIndexes # {}
    /\ \E i \in 1..Len(pageOutcome) : pageOutcome[i].outcome # "ok"

-----------------------------------------------------------------------------
(* Properties of _get_all_pages *)

PagesReturned == fn_name = "_get_all_pages" /\ fn_pc = "returned"

\* the offsets 0, Limit, 2 * Limit, ... of the first n requests
Offsets(n) == [i \in 1..n |-> (i - 1) * Limit]

PagesResult ==
    PagesReturned =>
        /\ fn_out.all_pages = ListingOf(fn_in)
        /\ fn_out.all_pages = _get_all_pages(ListingOf(fn_in))
        /\ fn_out.requests = Offsets((fn_in \div Limit) + 1)

\* C19: _get_all_pages terminates for every space and returns every page of
\* the space once, in listing order; it requests the offsets 0, 50, 100, ...
\* and stops at the first response that is empty or short, so a space of N
\* pages costs floor(N / 50) + 1 requests.
C19_Pagination == []PagesResult /\ <>(fn_pc = "returned")

\* a space of exactly two full responses: the third request returns nothing
C19_Witness ==
    /\ PagesReturned
    /\ fn_in = 2 * Limit
    /\ fn_out.requests = <<0, Limit, 2 * Limit>>
    /\ Len(fn_out.all_pages) = fn_in

-----------------------------------------------------------------------------
(* Properties of the directory after a run *)

\* name.endswith(".md")
EndsWithMd(name) ==
    /\ Len(name) >= Len(MdSuffix)
    /\ SubSeq(name, Len(name) - Len(MdSuffix) + 1, Len(name)) = MdSuffix

\* the regular files directly under output_path whose name ends in .md
MdNamedFiles(f) ==
    {path[1] : path \in {q \in IterDir(f) :
                            f[q].kind = "file" /\ EndsWithMd(q[1])}}

\* C20: after a run that collected at least one page and returned, the .md
\* files directly under output_path are exactly the files written with
\* success in that run, whatever the directory held before.
C20_PostRunSnapshot ==
    (pc = "done" /\ Len(all_pages_to_sync) >= 1) =>
        MdNamedFiles(fs) = WrittenNames

-----------------------------------------------------------------------------
(* Properties of the early exits of sync *)

\* the reason the run ended before the page loop, "" when it did not
EarlyExitSummary ==
    IF items = <<>> THEN "No Confluence configurations configured"
    ELSE IF ~import_ok THEN "Missing dependency: atlassian-python-api"
    ELSE IF all_pages_to_sync = <<>> THEN "No pages found in Confluence spaces"
    ELSE ""

EndedEarly == run > 0 /\ pc = "done" /\ EarlyExitSummary # ""

\* C21: a run that ends because no configuration was supplied, because the
\* client library cannot be imported, or because no page was collected
\* returns a SyncResult with items_synced = 0 and a summary that explains it,
\* and has written and deleted no file under output_path.
C21_EarlyExitsChangeNothing ==
    EndedEarly =>
        /\ result.kind = "SyncResult"
        /\ result.items_synced = 0
        /\ result.summary = [text |-> EarlyExitSummary]
        /\ fs = fsAtStart
        /\ deleted = {}
        /\ cleanupCalls = 0
        /\ pageOutcome = <<>>

\* the second run collects no page while the directory holds the file of a
\* page of the first run
C21_Witness ==
    /\ EndedEarly
    /\ run = 2
    /\ EarlyExitSummary = "No pages found in Confluence spaces"
    /\ listFailed # {}
    /\ \E p \in PageIds : Exists(fs, <<PageFilename(p)>>)

====
